---- MODULE Spec2Model ----
(***************************************************************************)
(* The view/request state machine of frontend/src/App.js: the React state  *)
(* of the App component, its asynchronous handlers cut at every `await`,   *)
(* and the remote Signal Store the handlers talk to over HTTP.             *)
(*                                                                         *)
(* JavaScript is single threaded: the code between two awaits of a handler *)
(* runs without interruption, so each such segment is one action.  Between *)
(* the segments any other event (a click, a keystroke, another response)   *)
(* may run.  A response is consumed in one step: `await fetch(..)` and the *)
(* following `await response.json()` / `response.blob()` write nothing in  *)
(* between, so the pair is one resumption whose outcome is "rejected"      *)
(* (fetch rejects), "unparseable" (the body read rejects) or "ok".         *)
(*                                                                         *)
(* activeTab only selects which buttons are on screen; the tab bar is      *)
(* always rendered and setActiveTab writes nothing else, so every button   *)
(* is one click away and the tab is left out of the state.  The guards     *)
(* that depend on other state (analytics loaded, a signal row present,     *)
(* the Extract button not disabled by `extracting`) are kept.              *)
(***************************************************************************)
EXTENDS Bags, FiniteSets, Integers, Sequences, TLC

\* ---- bounds ------------------------------------------------------------
\* handler invocations that may be suspended at an await at the same time
MaxRunning == 2
\* the store hands out signal identifiers 1..MaxSignalId and then declines
MaxSignalId == 1

VARIABLES
  mounted,     \* the mount effect (useEffect, [] deps) has run
  message,     \* useState('')              draft text, a sequence of characters
  groupName,   \* useState('Manual Input')
  signals,     \* useState([])              cached list, signal ids in store order
  analytics,   \* useState(null)            cached snapshot
  loading,     \* useState(false)
  extracting,  \* useState(false)
  store,       \* remote Signal Store: the set of stored signal ids
  nextId,      \* remote Signal Store: next identifier it hands out
  ops,         \* bag of the handler invocations suspended at an await, each
               \* with its request in flight and the log of what it did so far
  last         \* what the step leading here did outside the view state: errors
               \* logged, alerts shown, files saved, handler calls that came
               \* back at once

vars == <<mounted, message, groupName, signals, analytics, loading, extracting, store, nextId, ops, last>>

\* ---- values ------------------------------------------------------------
\* the drafts a user types: nothing, only white space, a padded text
TypedDrafts == { <<>>, <<" ">>, <<" ", "x">> }

GroupNames == { "Manual Input", "VIP" }

ExportFormats == { "csv", "json" }

\* the `message` field of an extraction response that reports no success
StoreMessages == { "Unsupported format", "" }

\* the identifier the store hands out after those in S
FreshId(S) == IF S = {} THEN 1 ELSE (CHOOSE a \in S : \A b \in S : b <= a) + 1

NullAnalytics == [tag |-> "null"]

Snapshot(S) == [tag |-> "snapshot", total_signals |-> Cardinality(S)]

RECURSIVE StoreList(_)
StoreList(S) ==
  IF S = {} THEN <<>>
  ELSE LET m == CHOOSE a \in S : \A b \in S : a <= b
       IN  <<m>> \o StoreList(S \ {m})

Range(s) == { s[k] : k \in 1..Len(s) }

\* String.prototype.trim: drop leading and trailing white space
RECURSIVE TrimLeft(_)
TrimLeft(s) == IF s # <<>> /\ Head(s) = " " THEN TrimLeft(Tail(s)) ELSE s

RECURSIVE TrimRight(_)
TrimRight(s) ==
  IF s # <<>> /\ s[Len(s)] = " " THEN TrimRight(SubSeq(s, 1, Len(s) - 1)) ELSE s

trim(s) == TrimRight(TrimLeft(s))

\* JavaScript truthiness of a string: '' is falsy
Truthy(str) == str # ""

\* ---- handler invocations -----------------------------------------------
Ev(e, a) == [ev |-> e, arg |-> a]

Request(url) == Ev("request", url)

Resolved(how) == Ev("resolved", how)

\* console.error(text, error) in a catch block
Logged(text) == Ev("log", text)

\* what a try/catch that only logs leaves behind: nothing unless it caught
Caught(outcome, text) == IF outcome = "ok" THEN <<>> ELSE <<Logged(text)>>

NoResp == [none |-> TRUE]

NoBody == [message |-> <<>>, group_name |-> ""]

\* a handler invocation that logs `before`, issues its first request and suspends.
\* `alone` records that no other invocation has been suspended during its life.
NewOp(kind, pc, id, fmt, body, url, before) ==
  [kind |-> kind, pc |-> pc, id |-> id, fmt |-> fmt, body |-> body,
   net |-> "sent", resp |-> NoResp, log |-> before \o <<Request(url)>>,
   alone |-> (ops = EmptyBag)]

\* the invocation logs `pre`, issues the request `url` and suspends at `pc`
IssueFrom(o, pc, url, pre) ==
  [o EXCEPT !.pc = pc, !.net = "sent", !.resp = NoResp,
            !.log = @ \o pre \o <<Request(url)>>]

Running == BagToSet(ops)

One(o) == SetToBag({o})

\* the suspended invocations once a further one has joined them
Joined == [o \in { [r EXCEPT !.alone = FALSE] : r \in Running } |->
             LET src == { r \in Running : [r EXCEPT !.alone = FALSE] = o }
             IN  BagCardinality([r \in src |-> ops[r]])]

\* a click starts a handler only while the bound on suspended invocations allows
CanStart == mounted /\ BagCardinality(ops) < MaxRunning

Start(o) == ops' = Joined (+) One(o)

Replace(o, o2) == ops' = (ops (-) One(o)) (+) One(o2)

Remove(o) == ops' = ops (-) One(o)

\* the outcomes the awaited fetch (and body read, if the handler reads one) can have
Outcomes(o) ==
  IF o.net = "sent" THEN {"rejected"}
  ELSE IF o.pc = "delete" THEN {"rejected", "ok"}
  ELSE {"rejected", "unparseable", "ok"}

Init ==
  /\ mounted = FALSE
  /\ message = <<>>
  /\ groupName = "Manual Input"
  /\ signals = <<>>
  /\ analytics = NullAnalytics
  /\ loading = FALSE
  /\ extracting = FALSE
  /\ store \in SUBSET (1..MaxSignalId)
  /\ nextId = FreshId(store)
  /\ ops = EmptyBag
  /\ last = <<>>

\* ---- the mount effect: fetchSignals(); fetchAnalytics(); neither awaited
Mount ==
  /\ ~mounted
  /\ mounted' = TRUE
  /\ loading' = TRUE
  /\ ops' = One([NewOp("fetchSignals", "signals", 0, "", NoBody, "GET /api/signals", <<>>)
                   EXCEPT !.alone = FALSE])
            (+) One([NewOp("fetchAnalytics", "analytics", 0, "", NoBody, "GET /api/analytics", <<>>)
                   EXCEPT !.alone = FALSE])
  /\ last' = <<>>
  /\ UNCHANGED <<message, groupName, signals, analytics, extracting, store, nextId>>

\* ---- draft editing -----------------------------------------------------
setMessage(v) ==
  /\ mounted
  /\ message' = v
  /\ last' = <<>>
  /\ UNCHANGED <<mounted, groupName, signals, analytics, loading, extracting, store, nextId, ops>>

setGroupName(v) ==
  /\ mounted
  /\ groupName' = v
  /\ last' = <<>>
  /\ UNCHANGED <<mounted, message, signals, analytics, loading, extracting, store, nextId, ops>>

\* ---- fetchSignals, App.js:54-62 ----------------------------------------
\* what `data.signals` evaluates to when the body has no such field: a value
\* that is no list of signals, written as the one-element sequence <<0>>, which
\* no list of signal identifiers (1, 2, ..) equals
Undefined == <<0>>

\* `data.signals` without the `|| []`
SignalsOf_NoDefault(data) == IF data.hasSignals THEN data.signals ELSE Undefined

\* `data.signals || []`: an absent field gives the empty list
SignalsOf(data) == IF data.hasSignals THEN data.signals ELSE <<>>

\* fetchSignals whose catch empties the cache
fetchSignalsResult_ClearOnError(outcome, data, old) ==
  IF outcome = "ok" THEN SignalsOf(data) ELSE <<>>

\* fetchSignals that fills the cache only while it is empty
fetchSignalsResult_FirstWins(outcome, data, old) ==
  IF outcome = "ok" /\ old = <<>> THEN SignalsOf(data) ELSE old

\* the cache after fetchSignals resumed with `outcome`: setSignals, or the catch
fetchSignalsResult(outcome, data, old) ==
  IF outcome = "ok" THEN SignalsOf(data) ELSE old

\* how the log names the end of a list fetch
ListOutcome(outcome, hasSignals) ==
  IF outcome = "ok" /\ ~hasSignals THEN "ok, no signals field" ELSE outcome

\* fetchSignals resumes and its caller returns without calling fetchAnalytics
fetchSignalsResume_NoAnalytics(o, outcome, hasSignals) ==
  /\ o.pc = "signals"
  /\ outcome \in Outcomes(o)
  /\ outcome # "ok" => hasSignals
  /\ signals' = fetchSignalsResult(outcome, [hasSignals |-> hasSignals, signals |-> o.resp], signals)
  /\ Remove(o)
  /\ last' = Caught(outcome, "Error fetching signals:")
  /\ extracting' = IF o.kind = "extractSignal" THEN FALSE ELSE extracting
  /\ UNCHANGED <<mounted, message, groupName, analytics, loading, store, nextId>>

\* fetchSignals without its own catch: a failure propagates to the catch of
\* the caller, which skips fetchAnalytics
fetchSignalsResume_ThrowToCaller(o, outcome, hasSignals) ==
  /\ o.pc = "signals"
  /\ outcome \in Outcomes(o)
  /\ outcome # "ok" => hasSignals
  /\ signals' = fetchSignalsResult(outcome, [hasSignals |-> hasSignals, signals |-> o.resp], signals)
  /\ last' = Caught(outcome, "Error fetching signals:")
  /\ IF o.kind = "fetchSignals" \/ outcome # "ok"
       THEN /\ Remove(o)
            /\ UNCHANGED loading
       ELSE /\ Replace(o, IssueFrom(o, "analytics", "GET /api/analytics",
                                    <<Resolved(ListOutcome(outcome, hasSignals))>>))
            /\ loading' = TRUE
  /\ extracting' = IF o.kind = "extractSignal" /\ outcome # "ok" THEN FALSE ELSE extracting
  /\ UNCHANGED <<mounted, message, groupName, analytics, store, nextId>>

\* fetchSignals resumes.  Called from the mount effect it just returns; its
\* other callers go on to call fetchAnalytics, which sets loading and issues
\* its request (App.js:65-67)
fetchSignalsResume(o, outcome, hasSignals) ==
  /\ o.pc = "signals"
  /\ outcome \in Outcomes(o)
  /\ outcome # "ok" => hasSignals
  /\ signals' = fetchSignalsResult(outcome, [hasSignals |-> hasSignals, signals |-> o.resp], signals)
  /\ last' = Caught(outcome, "Error fetching signals:")
  /\ IF o.kind = "fetchSignals"
       THEN /\ Remove(o)
            /\ UNCHANGED loading
       ELSE /\ Replace(o, IssueFrom(o, "analytics", "GET /api/analytics",
                                    <<Resolved(ListOutcome(outcome, hasSignals))>>))
            /\ loading' = TRUE
  /\ UNCHANGED <<mounted, message, groupName, analytics, extracting, store, nextId>>

\* ---- fetchAnalytics, App.js:64-74 --------------------------------------
\* fetchAnalytics that never writes the snapshot
fetchAnalyticsResult_Keep(outcome, data, old) == old

\* the snapshot after fetchAnalytics resumed with `outcome`: setAnalytics, or
\* the catch
fetchAnalyticsResult(outcome, data, old) ==
  IF outcome = "ok" THEN data ELSE old

\* fetchAnalytics with setLoading(false) inside its try block
fetchAnalyticsResume_LoadingStuck(o, outcome) ==
  /\ o.pc = "analytics"
  /\ outcome \in Outcomes(o)
  /\ analytics' = fetchAnalyticsResult(outcome, o.resp, analytics)
  /\ loading' = IF outcome = "ok" THEN FALSE ELSE loading
  /\ extracting' = IF o.kind = "extractSignal" THEN FALSE ELSE extracting
  /\ Remove(o)
  /\ last' = Caught(outcome, "Error fetching analytics:")
  /\ UNCHANGED <<mounted, message, groupName, signals, store, nextId>>

\* fetchAnalytics whose catch also alerts the user
fetchAnalyticsResume_AlertOnError(o, outcome) ==
  /\ o.pc = "analytics"
  /\ outcome \in Outcomes(o)
  /\ analytics' = fetchAnalyticsResult(outcome, o.resp, analytics)
  /\ loading' = FALSE
  /\ extracting' = IF o.kind = "extractSignal" THEN FALSE ELSE extracting
  /\ Remove(o)
  /\ last' = IF outcome = "ok" THEN <<>>
             ELSE <<Logged("Error fetching analytics:"), Ev("alert", "Error fetching analytics")>>
  /\ UNCHANGED <<mounted, message, groupName, signals, store, nextId>>

\* fetchAnalytics resumes and returns; extractSignal then runs its last
\* line, setExtracting(false) (App.js:105)
fetchAnalyticsResume(o, outcome) ==
  /\ o.pc = "analytics"
  /\ outcome \in Outcomes(o)
  /\ analytics' = fetchAnalyticsResult(outcome, o.resp, analytics)
  /\ loading' = FALSE
  /\ extracting' = IF o.kind = "extractSignal" THEN FALSE ELSE extracting
  /\ Remove(o)
  /\ last' = Caught(outcome, "Error fetching analytics:")
  /\ UNCHANGED <<mounted, message, groupName, signals, store, nextId>>

\* ---- extractSignal, App.js:76-106 --------------------------------------
\* an Extract button that is never disabled
ExtractDisabled_Never == FALSE

\* App.js:344, the Extract button is disabled while extracting.  Its second
\* conjunct, !message.trim(), is the handler's own early return (App.js:77).
ExtractDisabled == extracting

\* extractSignal without its early return
extractSignal_NoEarlyReturn ==
  /\ CanStart
  /\ ~ExtractDisabled
  /\ extracting' = TRUE
  /\ Start(NewOp("extractSignal", "post", 0, "",
                 [message |-> trim(message), group_name |-> groupName],
                 "POST /api/extract-signal", <<>>))
  /\ last' = <<>>
  /\ UNCHANGED <<mounted, message, groupName, signals, analytics, loading, store, nextId>>

extractSignal ==
  /\ CanStart
  /\ ~ExtractDisabled
  /\ IF trim(message) = <<>>
       THEN /\ last' = <<Ev("return", "extractSignal")>>
            /\ UNCHANGED <<extracting, ops>>
       ELSE /\ extracting' = TRUE
            /\ Start(NewOp("extractSignal", "post", 0, "",
                           [message |-> trim(message), group_name |-> groupName],
                           "POST /api/extract-signal", <<>>))
            /\ last' = <<>>
  /\ UNCHANGED <<mounted, message, groupName, signals, analytics, loading, store, nextId>>

\* an alert that ignores the message of the store
AlertText_Generic(result) == "No valid signal found"

\* `result.message || 'No valid signal found'`
AlertText(result) ==
  IF result.hasMessage /\ Truthy(result.message)
    THEN result.message ELSE "No valid signal found"

\* extractSignal that keeps the draft after a success
extractSignalResume_KeepDraft(o, outcome) ==
  /\ o.pc = "post"
  /\ outcome \in Outcomes(o)
  /\ IF outcome = "ok" /\ o.resp.success
       THEN /\ Replace(o, IssueFrom(o, "signals", "GET /api/signals", <<Resolved("ok")>>))
            /\ last' = <<>>
            /\ UNCHANGED extracting
       ELSE /\ Remove(o)
            /\ last' = IF outcome = "ok"
                         THEN <<Ev("alert", AlertText(o.resp))>>
                         ELSE <<Logged("Error extracting signal:"),
                                Ev("alert", "Error extracting signal")>>
            /\ extracting' = FALSE
  /\ UNCHANGED <<mounted, message, groupName, signals, analytics, loading, store, nextId>>

\* extractSignal whose catch only logs, like the catch of deleteSignal
extractSignalResume_SilentCatch(o, outcome) ==
  /\ o.pc = "post"
  /\ outcome \in Outcomes(o)
  /\ LET result == o.resp IN
     IF outcome = "ok"
       THEN IF result.success
              THEN /\ message' = <<>>
                   /\ Replace(o, IssueFrom(o, "signals", "GET /api/signals", <<Resolved("ok")>>))
                   /\ last' = <<>>
                   /\ UNCHANGED extracting
              ELSE /\ Remove(o)
                   /\ last' = <<Ev("alert", AlertText(result))>>
                   /\ extracting' = FALSE
                   /\ UNCHANGED message
       ELSE /\ Remove(o)
            /\ last' = <<Logged("Error extracting signal:")>>
            /\ extracting' = FALSE
            /\ UNCHANGED message
  /\ UNCHANGED <<mounted, groupName, signals, analytics, loading, store, nextId>>

\* extractSignal that empties the group name along with the draft
extractSignalResume_ClearGroupName(o, outcome) ==
  /\ o.pc = "post"
  /\ outcome \in Outcomes(o)
  /\ LET result == o.resp IN
     IF outcome = "ok"
       THEN IF result.success
              THEN /\ message' = <<>>
                   /\ groupName' = ""
                   /\ Replace(o, IssueFrom(o, "signals", "GET /api/signals", <<Resolved("ok")>>))
                   /\ last' = <<>>
                   /\ UNCHANGED extracting
              ELSE /\ Remove(o)
                   /\ last' = <<Ev("alert", AlertText(result))>>
                   /\ extracting' = FALSE
                   /\ UNCHANGED <<message, groupName>>
       ELSE /\ Remove(o)
            /\ last' = <<Logged("Error extracting signal:"),
                         Ev("alert", "Error extracting signal")>>
            /\ extracting' = FALSE
            /\ UNCHANGED <<message, groupName>>
  /\ UNCHANGED <<mounted, signals, analytics, loading, store, nextId>>

\* extractSignal with setExtracting(false) at the end of its try block, so
\* that the catch leaves the flag set
extractSignalResume_StuckOnError(o, outcome) ==
  /\ o.pc = "post"
  /\ outcome \in Outcomes(o)
  /\ LET result == o.resp IN
     IF outcome = "ok"
       THEN IF result.success
              THEN /\ message' = <<>>
                   /\ Replace(o, IssueFrom(o, "signals", "GET /api/signals", <<Resolved("ok")>>))
                   /\ last' = <<>>
                   /\ UNCHANGED extracting
              ELSE /\ Remove(o)
                   /\ last' = <<Ev("alert", AlertText(result))>>
                   /\ extracting' = FALSE
                   /\ UNCHANGED message
       ELSE /\ Remove(o)
            /\ last' = <<Logged("Error extracting signal:"),
                         Ev("alert", "Error extracting signal")>>
            /\ UNCHANGED <<extracting, message>>
  /\ UNCHANGED <<mounted, groupName, signals, analytics, loading, store, nextId>>

\* the POST settles; the parsed body, when there is one, is `result`
extractSignalResume(o, outcome) ==
  /\ o.pc = "post"
  /\ outcome \in Outcomes(o)
  /\ LET result == o.resp IN
     IF outcome = "ok"
       THEN IF result.success
              THEN /\ message' = <<>>
                   /\ Replace(o, IssueFrom(o, "signals", "GET /api/signals", <<Resolved("ok")>>))
                   /\ last' = <<>>
                   /\ UNCHANGED extracting
              ELSE /\ Remove(o)
                   /\ last' = <<Ev("alert", AlertText(result))>>
                   /\ extracting' = FALSE
                   /\ UNCHANGED message
       ELSE /\ Remove(o)
            /\ last' = <<Logged("Error extracting signal:"),
                         Ev("alert", "Error extracting signal")>>
            /\ extracting' = FALSE
            /\ UNCHANGED message
  /\ UNCHANGED <<mounted, groupName, signals, analytics, loading, store, nextId>>

\* the bodies an extraction response can carry: { success, message? }
ExtractResults ==
  { [success |-> TRUE, hasMessage |-> FALSE, message |-> ""],
    [success |-> FALSE, hasMessage |-> FALSE, message |-> ""] }
  \cup { [success |-> FALSE, hasMessage |-> TRUE, message |-> m] : m \in StoreMessages }

\* ---- clearAllSignals, App.js:108-118 -----------------------------------
\* the Clear All and Export buttons are rendered with the dashboard, App.js:237
DashboardShown == analytics # NullAnalytics

\* clearAllSignals that ignores the answer to window.confirm
clearAllSignals_NoConfirm(confirmed) ==
  /\ CanStart
  /\ DashboardShown
  /\ Start(NewOp("clearAllSignals", "delete", 0, "", NoBody, "DELETE /api/signals", <<>>))
  /\ last' = IF confirmed THEN <<>> ELSE <<Ev("return", "clearAllSignals")>>
  /\ UNCHANGED <<mounted, message, groupName, signals, analytics, loading, extracting, store, nextId>>

clearAllSignals(confirmed) ==
  /\ CanStart
  /\ DashboardShown
  /\ IF confirmed
       THEN /\ Start(NewOp("clearAllSignals", "delete", 0, "", NoBody,
                           "DELETE /api/signals", <<>>))
            /\ last' = <<>>
       ELSE /\ last' = <<Ev("return", "clearAllSignals")>>
            /\ UNCHANGED ops
  /\ UNCHANGED <<mounted, message, groupName, signals, analytics, loading, extracting, store, nextId>>

\* ---- deleteSignal, App.js:120-128 --------------------------------------
\* deleteSignal that takes the row out of the cached list at the click
deleteSignal_Optimistic(signalId) ==
  /\ CanStart
  /\ signalId \in Range(signals)
  /\ signals' = SelectSeq(signals, LAMBDA x : x # signalId)
  /\ Start(NewOp("deleteSignal", "delete", signalId, "", NoBody,
                 "DELETE /api/signals/" \o ToString(signalId), <<>>))
  /\ last' = <<>>
  /\ UNCHANGED <<mounted, message, groupName, analytics, loading, extracting, store, nextId>>

\* one Delete button per row of the cached list, App.js:465, 517
deleteSignal(signalId) ==
  /\ CanStart
  /\ signalId \in Range(signals)
  /\ Start(NewOp("deleteSignal", "delete", signalId, "", NoBody,
                 "DELETE /api/signals/" \o ToString(signalId), <<>>))
  /\ last' = <<>>
  /\ UNCHANGED <<mounted, message, groupName, signals, analytics, loading, extracting, store, nextId>>

\* a handler that sends its DELETE a second time after the first was rejected
deleteResume_RetryOnce(o, outcome) ==
  /\ o.pc = "delete"
  /\ outcome \in Outcomes(o)
  /\ IF outcome = "rejected"
       THEN /\ IF Len(o.log) = 1
                 THEN Replace(o, IssueFrom(o, "delete", o.log[1].arg, <<Resolved("rejected")>>))
                 ELSE Remove(o)
            /\ last' = <<Logged(IF o.kind = "clearAllSignals"
                                  THEN "Error clearing signals:"
                                  ELSE "Error deleting signal:")>>
       ELSE /\ Replace(o, IssueFrom(o, "signals", "GET /api/signals", <<Resolved("ok")>>))
            /\ last' = <<>>
  /\ UNCHANGED <<mounted, message, groupName, signals, analytics, loading, extracting, store, nextId>>

\* a handler that refreshes the caches also after its DELETE was rejected
deleteResume_RefreshOnError(o, outcome) ==
  /\ o.pc = "delete"
  /\ outcome \in Outcomes(o)
  /\ Replace(o, IssueFrom(o, "signals", "GET /api/signals", <<Resolved(outcome)>>))
  /\ last' = Caught(outcome, IF o.kind = "clearAllSignals"
                               THEN "Error clearing signals:"
                               ELSE "Error deleting signal:")
  /\ UNCHANGED <<mounted, message, groupName, signals, analytics, loading, extracting, store, nextId>>

\* the DELETE of clearAllSignals or deleteSignal settles: a rejection goes to
\* the catch (logged only), anything else goes on to fetchSignals
deleteResume(o, outcome) ==
  /\ o.pc = "delete"
  /\ outcome \in Outcomes(o)
  /\ IF outcome = "rejected"
       THEN /\ Remove(o)
            /\ last' = <<Logged(IF o.kind = "clearAllSignals"
                                  THEN "Error clearing signals:"
                                  ELSE "Error deleting signal:")>>
       ELSE /\ Replace(o, IssueFrom(o, "signals", "GET /api/signals", <<Resolved("ok")>>))
            /\ last' = <<>>
  /\ UNCHANGED <<mounted, message, groupName, signals, analytics, loading, extracting, store, nextId>>

\* ---- exportData, App.js:130-147 ----------------------------------------
exportData(format) ==
  /\ CanStart
  /\ DashboardShown
  /\ Start(NewOp("exportData", "export", 0, format, NoBody, "GET /api/export/" \o format, <<>>))
  /\ last' = <<>>
  /\ UNCHANGED <<mounted, message, groupName, signals, analytics, loading, extracting, store, nextId>>

\* exportData that saves a file even when the download failed
exportDataResume_AlwaysSave(o, outcome) ==
  /\ o.pc = "export"
  /\ outcome \in Outcomes(o)
  /\ Remove(o)
  /\ last' = <<Ev("save", "forex_signals." \o o.fmt)>>
  /\ UNCHANGED <<mounted, message, groupName, signals, analytics, loading, extracting, store, nextId>>

\* exportData that switches the loading flag off when it is done
exportDataResume_TouchLoading(o, outcome) ==
  /\ o.pc = "export"
  /\ outcome \in Outcomes(o)
  /\ Remove(o)
  /\ loading' = FALSE
  /\ last' =
       IF outcome = "ok"
         THEN <<Ev("save", "forex_signals." \o o.fmt)>>
         ELSE <<Logged("Error exporting " \o o.fmt \o ":"),
                Ev("alert", "Error exporting " \o o.fmt)>>
  /\ UNCHANGED <<mounted, message, groupName, signals, analytics, extracting, store, nextId>>

exportDataResume(o, outcome) ==
  /\ o.pc = "export"
  /\ outcome \in Outcomes(o)
  /\ Remove(o)
  /\ last' =
       IF outcome = "ok"
         THEN <<Ev("save", "forex_signals." \o o.fmt)>>
         ELSE <<Logged("Error exporting " \o o.fmt \o ":"),
                Ev("alert", "Error exporting " \o o.fmt)>>
  /\ UNCHANGED <<mounted, message, groupName, signals, analytics, loading, extracting, store, nextId>>

\* ---- the remote Signal Store -------------------------------------------
\* the store answers the request of `o`; `payload` is what the answer carries
Reply(o, payload) == Replace(o, [o EXCEPT !.net = "replied", !.resp = payload])

\* GET /api/signals -> the list as it is now
StoreGetSignals(o) ==
  /\ o.net = "sent"
  /\ o.pc = "signals"
  /\ Reply(o, StoreList(store))
  /\ last' = <<>>
  /\ UNCHANGED <<mounted, message, groupName, signals, analytics, loading, extracting, store, nextId>>

\* GET /api/analytics -> the snapshot computed from the store as it is now
StoreGetAnalytics(o) ==
  /\ o.net = "sent"
  /\ o.pc = "analytics"
  /\ Reply(o, Snapshot(store))
  /\ last' = <<>>
  /\ UNCHANGED <<mounted, message, groupName, signals, analytics, loading, extracting, store, nextId>>

\* POST /api/extract-signal: the store either recognises a signal and stores
\* it under a fresh identifier, or declines
StoreExtract(o, result) ==
  /\ o.net = "sent"
  /\ o.pc = "post"
  /\ result.success => nextId <= MaxSignalId
  /\ Reply(o, result)
  /\ store' = IF result.success THEN store \cup {nextId} ELSE store
  /\ nextId' = IF result.success THEN nextId + 1 ELSE nextId
  /\ last' = <<>>
  /\ UNCHANGED <<mounted, message, groupName, signals, analytics, loading, extracting>>

\* the store after DELETE /api/signals (all) or DELETE /api/signals/{id} (one)
StoreAfterDelete(o, S) == IF o.kind = "clearAllSignals" THEN {} ELSE S \ {o.id}

StoreDelete(o) ==
  /\ o.net = "sent"
  /\ o.pc = "delete"
  /\ store' = StoreAfterDelete(o, store)
  /\ Reply(o, NoResp)
  /\ last' = <<>>
  /\ UNCHANGED <<mounted, message, groupName, signals, analytics, loading, extracting, nextId>>

\* GET /api/export/{format} -> the rendered file
StoreExport(o) ==
  /\ o.net = "sent"
  /\ o.pc = "export"
  /\ Reply(o, NoResp)
  /\ last' = <<>>
  /\ UNCHANGED <<mounted, message, groupName, signals, analytics, loading, extracting, store, nextId>>

\* ---- specification -----------------------------------------------------
AllOutcomes == {"rejected", "unparseable", "ok"}

Next ==
  \/ Mount
  \/ \E v \in TypedDrafts : setMessage(v)
  \/ \E g \in GroupNames : setGroupName(g)
  \/ extractSignal
  \/ \E confirmed \in BOOLEAN : clearAllSignals(confirmed)
  \/ \E id \in 1..MaxSignalId : deleteSignal(id)
  \/ \E f \in ExportFormats : exportData(f)
  \/ \E o \in Running, outcome \in AllOutcomes, h \in BOOLEAN : fetchSignalsResume(o, outcome, h)
  \/ \E o \in Running, outcome \in AllOutcomes : fetchAnalyticsResume(o, outcome)
  \/ \E o \in Running, outcome \in AllOutcomes : extractSignalResume(o, outcome)
  \/ \E o \in Running, outcome \in AllOutcomes : deleteResume(o, outcome)
  \/ \E o \in Running, outcome \in AllOutcomes : exportDataResume(o, outcome)
  \/ \E o \in Running : StoreGetSignals(o)
  \/ \E o \in Running : StoreGetAnalytics(o)
  \/ \E o \in Running, result \in ExtractResults : StoreExtract(o, result)
  \/ \E o \in Running : StoreDelete(o)
  \/ \E o \in Running : StoreExport(o)

Spec == Init /\ [][Next]_vars

\* ---- vocabulary of the properties ---------------------------------------
POST == Request("POST /api/extract-signal")

GETSignals == Request("GET /api/signals")

GETAnalytics == Request("GET /api/analytics")

ListOutcomes == {"rejected", "unparseable", "ok", "ok, no signals field"}

Count(b) == BagCardinality(b)

\* C1: a submit with a non-blank draft issues exactly one POST
\* /api/extract-signal; on a response with success=true it then issues exactly
\* one GET /api/signals and, once that has settled, exactly one GET
\* /api/analytics, and nothing after it; no refresh precedes the extraction
\* response and the analytics request never precedes the end of the list fetch.
C1_Logs ==
  \A o \in Running : o.kind = "extractSignal" =>
    \/ o.pc = "post" /\ o.log = <<POST>>
    \/ o.pc = "signals" /\ o.log = <<POST, Resolved("ok"), GETSignals>>
    \/ /\ o.pc = "analytics"
       /\ \E x \in ListOutcomes :
            o.log = <<POST, Resolved("ok"), GETSignals, Resolved(x), GETAnalytics>>

C1_Steps ==
  /\ (extractSignal /\ trim(message) # <<>>) =>
       /\ Count(ops') = Count(ops) + 1
       /\ \E n \in BagToSet(ops') : n.kind = "extractSignal" /\ n.log = <<POST>> /\ n \notin Running
  /\ \A o \in Running :
       /\ (extractSignalResume(o, "ok") /\ o.resp.success) =>
            /\ Count(ops') = Count(ops)
            /\ \E n \in BagToSet(ops') : n.log = <<POST, Resolved("ok"), GETSignals>>
       /\ \A x \in AllOutcomes, h \in BOOLEAN :
            (o.kind = "extractSignal" /\ fetchSignalsResume(o, x, h)) =>
              /\ Count(ops') = Count(ops)
              /\ \E n \in BagToSet(ops') :
                   /\ Len(n.log) = 5
                   /\ SubSeq(n.log, 1, 3) = <<POST, Resolved("ok"), GETSignals>>
                   /\ n.log[4].ev = "resolved"
                   /\ n.log[5] = GETAnalytics
       /\ \A x \in AllOutcomes :
            (o.kind = "extractSignal" /\ fetchAnalyticsResume(o, x)) =>
              Count(ops') = Count(ops) - 1

C1_SubmitIssuesPostThenListThenAnalytics == []C1_Logs /\ [][C1_Steps]_vars

C1_Witness ==
  \E o \in Running :
    /\ o.kind = "extractSignal"
    /\ o.pc = "analytics"
    /\ o.net = "replied"
    /\ o.log = <<POST, Resolved("ok"), GETSignals, Resolved("ok"), GETAnalytics>>

\* the suspended invocations that satisfy P, with their multiplicity
Where(b, P(_)) == [o \in { x \in BagToSet(b) : P(x) } |-> b[o]]

IsPost(o) == o.pc = "post"

IsClearAll(o) == o.kind = "clearAllSignals"

IsExport(o) == o.kind = "exportData"

NotExport(o) == o.kind # "exportData"

\* what the invocations other than exports have requested so far
OtherLogs(b) == { <<o.kind, o.log>> : o \in { x \in BagToSet(b) : NotExport(x) } }

NoAlert(l) == \A k \in 1..Len(l) : l[k].ev # "alert"

\* C2: a submit while the draft is empty or only white space issues no request
\* and changes nothing in the view (draft, group name, list, snapshot, both
\* flags), and shows no alert; no POST is ever issued from a blank draft.
C2_Step ==
  /\ (extractSignal /\ trim(message) = <<>>) =>
       /\ UNCHANGED <<message, groupName, signals, analytics, loading, extracting, ops>>
       /\ NoAlert(last')
  /\ Count(Where(ops', IsPost)) > Count(Where(ops, IsPost)) =>
       message \notin { <<>>, <<" ">> }

C2_BlankSubmitIsNoOp == [][C2_Step]_vars

C2_Witness == last = <<Ev("return", "extractSignal")>> /\ message = <<" ">>

\* a delete or clear-all whose DELETE and list refresh both succeeded and whose
\* analytics refresh is the request still outstanding
Refreshing(o) ==
  /\ o.kind \in {"deleteSignal", "clearAllSignals"}
  /\ o.pc = "analytics"
  /\ o.log[2] = Resolved("ok")
  /\ o.log[4] = Resolved("ok")

\* C3 as stated: when a delete or clear-all completes with its DELETE and both
\* refreshes succeeding, the cached list and the cached snapshot equal the
\* store, whatever else is in flight.
C3_Original_CachesEqualStoreInEveryInterleaving ==
  [][\A o \in Running :
       (Refreshing(o) /\ fetchAnalyticsResume(o, "ok")) =>
         /\ signals' = StoreList(store')
         /\ analytics' = Snapshot(store')]_vars

\* C3 amended: the same, for a delete or clear-all during whose whole run no
\* other invocation had a request in flight.
C3_CachesEqualStoreWhenAlone ==
  [][\A o \in Running :
       (Refreshing(o) /\ o.alone /\ fetchAnalyticsResume(o, "ok")) =>
         /\ signals' = StoreList(store')
         /\ analytics' = Snapshot(store')]_vars

C3_Witness ==
  \E o \in Running :
    /\ Refreshing(o)
    /\ o.alone
    /\ o.kind = "deleteSignal"
    /\ o.net = "replied"
    /\ store = {}

\* C4: a list fetch that fails, by a rejected request or an unreadable body,
\* leaves the cached list, the snapshot and the draft as they were and shows no
\* alert; the cached list changes only in a step that consumes a parsed
\* response of GET /api/signals.
C4_Step ==
  /\ \A o \in Running, x \in {"rejected", "unparseable"} :
       fetchSignalsResume(o, x, TRUE) =>
         /\ signals' = signals
         /\ analytics' = analytics
         /\ message' = message
         /\ groupName' = groupName
         /\ NoAlert(last')
  /\ signals' # signals =>
       \E o \in Running, h \in BOOLEAN :
         o.net = "replied" /\ fetchSignalsResume(o, "ok", h)

C4_FailedListFetchKeepsCache == [][C4_Step]_vars

C4_Witness ==
  \E o \in Running :
    /\ o.kind = "deleteSignal"
    /\ o.pc = "analytics"
    /\ o.log[4] = Resolved("unparseable")
    /\ signals = <<1>>

\* an extraction response that was parsed and does not report success
Declined(o) == o.pc = "post" /\ o.net = "replied" /\ ~o.resp.success

\* C5 as stated: on such a response the submit shows exactly one alert whose
\* text is the message of the store, or 'No valid signal found' when the store
\* supplies none, keeps the draft and issues no refresh.
C5_Original_AlertEqualsStoreMessage ==
  [][\A o \in Running :
       (Declined(o) /\ extractSignalResume(o, "ok")) =>
         /\ last' = <<Ev("alert", IF o.resp.hasMessage THEN o.resp.message
                                                      ELSE "No valid signal found")>>
         /\ message' = message
         /\ ops' = ops (-) One(o)]_vars

\* C5 amended: the text is the message of the store when that is a non-empty
\* string, and 'No valid signal found' when it is absent or empty.
C5_AlertEqualsNonEmptyStoreMessage ==
  [][\A o \in Running :
       (Declined(o) /\ extractSignalResume(o, "ok")) =>
         /\ last' = <<Ev("alert", IF o.resp.hasMessage /\ o.resp.message # ""
                                    THEN o.resp.message ELSE "No valid signal found")>>
         /\ message' = message
         /\ ops' = ops (-) One(o)]_vars

C5_Witness == last = <<Ev("alert", "Unsupported format")>> /\ message # <<>>

\* C6 as stated: after a success response the draft is empty when the submit
\* completes and no alert was shown, whatever the refreshes did.
C6_Original_DraftEmptyAtCompletion ==
  [][\A o \in Running, x \in AllOutcomes :
       (o.kind = "extractSignal" /\ fetchAnalyticsResume(o, x)) =>
         message' = <<>> /\ NoAlert(last')]_vars

\* C6 amended: the step that handles the success response empties the draft;
\* no later step of the submit writes the draft or shows an alert, whatever the
\* refreshes did (the user may type into the draft again before it completes).
C6_Step ==
  \A o \in Running :
    /\ (o.pc = "post" /\ extractSignalResume(o, "ok") /\ o.resp.success) =>
         message' = <<>> /\ NoAlert(last')
    /\ \A x \in AllOutcomes, h \in BOOLEAN :
         (o.kind = "extractSignal" /\ fetchSignalsResume(o, x, h)) =>
           message' = message /\ NoAlert(last')
    /\ \A x \in AllOutcomes :
         (o.kind = "extractSignal" /\ fetchAnalyticsResume(o, x)) =>
           message' = message /\ NoAlert(last')

C6_SuccessClearsDraftOnce == [][C6_Step]_vars

C6_Witness ==
  \E o \in Running :
    /\ o.kind = "extractSignal"
    /\ o.pc = "analytics"
    /\ o.log[4] = Resolved("rejected")
    /\ message = <<>>

\* C7: at most one POST /api/extract-signal is in flight, and extracting is
\* set for as long as a submit is suspended.
C7_AtMostOneExtractionInFlight ==
  /\ Count(Where(ops, IsPost)) <= 1
  /\ (\E o \in Running : o.kind = "extractSignal") => extracting

C7_Witness ==
  \E o \in Running :
    /\ o.pc = "post"
    /\ Count(ops) = 1
    /\ extracting
    /\ trim(message) # <<>>

\* C8: a clear-all that is not confirmed issues no request and changes nothing
\* in the view; a DELETE /api/signals is issued only by a confirmed clear-all.
C8_Step ==
  /\ clearAllSignals(FALSE) =>
       UNCHANGED <<message, groupName, signals, analytics, loading, extracting, ops>>
  /\ Count(Where(ops', IsClearAll)) > Count(Where(ops, IsClearAll)) =>
       clearAllSignals(TRUE)

C8_UnconfirmedClearAllIsNoOp == [][C8_Step]_vars

C8_Witness == last = <<Ev("return", "clearAllSignals")>> /\ signals # <<>>

\* C9: an export issues exactly one GET /api/export/{fmt}; with the file
\* obtained it saves exactly one file forex_signals.{fmt}; on a failure it saves
\* nothing and shows exactly one alert.
C9_Logs ==
  \A o \in Running : o.kind = "exportData" =>
    \/ o.fmt = "csv" /\ o.log = <<Request("GET /api/export/csv")>>
    \/ o.fmt = "json" /\ o.log = <<Request("GET /api/export/json")>>

C9_Steps ==
  /\ \A f \in ExportFormats :
       exportData(f) => Count(Where(ops', IsExport)) = Count(Where(ops, IsExport)) + 1
  /\ \A o \in Running :
       /\ exportDataResume(o, "ok") =>
            /\ last' = <<Ev("save", IF o.fmt = "csv" THEN "forex_signals.csv"
                                                     ELSE "forex_signals.json")>>
            /\ ops' = ops (-) One(o)
       /\ \A x \in {"rejected", "unparseable"} :
            exportDataResume(o, x) =>
              /\ last' = IF o.fmt = "csv"
                           THEN <<Logged("Error exporting csv:"),
                                  Ev("alert", "Error exporting csv")>>
                           ELSE <<Logged("Error exporting json:"),
                                  Ev("alert", "Error exporting json")>>
              /\ ops' = ops (-) One(o)

C9_ExportIssuesOneGetAndOneSave == []C9_Logs /\ [][C9_Steps]_vars

C9_Witness == last = <<Ev("save", "forex_signals.csv")>>

\* C10: no step of an export changes the cached list, the snapshot, the draft,
\* the group name or a busy flag, and an export requests nothing but its file.
C10_Logs ==
  \A o \in Running : o.kind = "exportData" =>
    \A k \in 1..Len(o.log) :
      o.log[k].ev = "request" =>
        o.log[k].arg \notin {"GET /api/signals", "GET /api/analytics",
                             "POST /api/extract-signal", "DELETE /api/signals"}

C10_Steps ==
  /\ \A f \in ExportFormats :
       exportData(f) =>
         /\ UNCHANGED <<message, groupName, signals, analytics, loading, extracting>>
         /\ OtherLogs(ops') = OtherLogs(ops)
         /\ Count(Where(ops', NotExport)) = Count(Where(ops, NotExport))
  /\ \A o \in Running, x \in AllOutcomes :
       exportDataResume(o, x) =>
         /\ UNCHANGED <<message, groupName, signals, analytics, loading, extracting>>
         /\ OtherLogs(ops') = OtherLogs(ops)
         /\ Count(Where(ops', NotExport)) = Count(Where(ops, NotExport))

C10_ExportLeavesViewAlone == []C10_Logs /\ [][C10_Steps]_vars

C10_Witness ==
  /\ last = <<Logged("Error exporting json:"), Ev("alert", "Error exporting json")>>
  /\ signals # <<>>
  /\ loading

\* an analytics request is in flight: an invocation is suspended in fetchAnalytics
AnalyticsInFlight == \E o \in Running : o.pc = "analytics"

\* C11: loading is true exactly while an analytics request is in flight: true
\* whenever at least one is, also when several overlap, and false once none is.
C11_LoadingWhileAnalyticsInFlight == loading <=> AnalyticsInFlight

\* C12: an analytics fetch that fails, by a rejected request or an unreadable
\* body, leaves the snapshot as it was (null when none was ever fetched), shows
\* no alert and ends with the loading flag false.
C12_Step ==
  \A o \in Running, x \in {"rejected", "unparseable"} :
    fetchAnalyticsResume(o, x) =>
      /\ analytics' = analytics
      /\ NoAlert(last')
      /\ loading' = FALSE

C12_FailedAnalyticsFetchKeepsSnapshot == [][C12_Step]_vars

\* an analytics fetch just failed and no snapshot was ever stored
C12_Witness ==
  /\ last = <<Logged("Error fetching analytics:")>>
  /\ analytics = NullAnalytics
  /\ ~loading

IsDeleteSignal(o) == o.kind = "deleteSignal"

\* C13: when the DELETE of deleteSignal(id) is rejected the operation ends
\* there: it issues no refresh, leaves the cached list and the snapshot as they
\* were, logs the error and shows no alert; and the click that issues the
\* DELETE, like the wait for its answer, writes neither cache.
C13_Logs ==
  \A o \in Running : (IsDeleteSignal(o) /\ o.pc = "delete") =>
    /\ Len(o.log) = 1
    /\ o.log[1].ev = "request"
    /\ o.log[1].arg \notin {"GET /api/signals", "GET /api/analytics"}

C13_Steps ==
  /\ \A id \in 1..MaxSignalId :
       deleteSignal(id) => UNCHANGED <<signals, analytics>>
  /\ \A o \in Running :
       (IsDeleteSignal(o) /\ deleteResume(o, "rejected")) =>
         /\ ops' = ops (-) One(o)
         /\ UNCHANGED <<signals, analytics>>
         /\ last' = <<Logged("Error deleting signal:")>>

C13_FailedDeleteLeavesCacheStale == []C13_Logs /\ [][C13_Steps]_vars

\* the store removed the signal, the answer was lost, the row is still cached
C13_Witness ==
  /\ last = <<Logged("Error deleting signal:")>>
  /\ signals = <<1>>
  /\ store = {}

IsMutation(o) == o.kind \in {"deleteSignal", "clearAllSignals"}

\* the DELETE request of a delete or clear-all
DELETE(o) ==
  IF o.kind = "clearAllSignals"
    THEN Request("DELETE /api/signals")
    ELSE Request("DELETE /api/signals/" \o ToString(o.id))

\* C14: a delete and a confirmed clear-all each issue exactly one DELETE; once
\* it has resolved they issue exactly one GET /api/signals; once that has
\* settled, with a list or with a failure, they issue exactly one GET
\* /api/analytics, and nothing after it.
C14_Logs ==
  \A o \in Running : IsMutation(o) =>
    \/ o.pc = "delete" /\ o.log = <<DELETE(o)>>
    \/ o.pc = "signals" /\ o.log = <<DELETE(o), Resolved("ok"), GETSignals>>
    \/ /\ o.pc = "analytics"
       /\ \E x \in ListOutcomes :
            o.log = <<DELETE(o), Resolved("ok"), GETSignals, Resolved(x), GETAnalytics>>

C14_Steps ==
  /\ ((\E id \in 1..MaxSignalId : deleteSignal(id)) \/ clearAllSignals(TRUE)) =>
       /\ Count(Where(ops', IsMutation)) = Count(Where(ops, IsMutation)) + 1
       /\ Count(ops') = Count(ops) + 1
  /\ \A o \in Running : IsMutation(o) =>
       /\ deleteResume(o, "ok") =>
            /\ Count(ops') = Count(ops)
            /\ \E n \in BagToSet(ops') : n.log = <<DELETE(o), Resolved("ok"), GETSignals>>
       /\ \A x \in AllOutcomes, h \in BOOLEAN :
            fetchSignalsResume(o, x, h) =>
              /\ Count(ops') = Count(ops)
              /\ \E n \in BagToSet(ops') :
                   n.log = o.log \o <<Resolved(ListOutcome(x, h)), GETAnalytics>>
       /\ \A x \in AllOutcomes :
            fetchAnalyticsResume(o, x) => ops' = ops (-) One(o)

C14_MutationIssuesDeleteThenListThenAnalytics == []C14_Logs /\ [][C14_Steps]_vars

\* a clear-all whose list refresh failed has its analytics request in flight
C14_Witness ==
  \E o \in Running :
    /\ o.kind = "clearAllSignals"
    /\ o.pc = "analytics"
    /\ o.log = <<Request("DELETE /api/signals"), Resolved("ok"), GETSignals,
                 Resolved("rejected"), GETAnalytics>>

\* the requests an invocation has issued so far, oldest first
RECURSIVE RequestsOf(_)
RequestsOf(l) ==
  IF l = <<>> THEN <<>>
  ELSE (IF Head(l).ev = "request" THEN <<Head(l).arg>> ELSE <<>>) \o RequestsOf(Tail(l))

\* the request an invocation is waiting for
Pending(o) == LET r == RequestsOf(o.log) IN r[Len(r)]

\* a step in which the user (or the mount of the page) starts a handler
UserAction ==
  \/ Mount
  \/ extractSignal
  \/ clearAllSignals(TRUE)
  \/ \E id \in 1..MaxSignalId : deleteSignal(id)
  \/ \E f \in ExportFormats : exportData(f)

\* some invocation consumes the outcome of its request
Resumes(o, x) ==
  \/ \E h \in BOOLEAN : fetchSignalsResume(o, x, h)
  \/ fetchAnalyticsResume(o, x)
  \/ extractSignalResume(o, x)
  \/ deleteResume(o, x)
  \/ exportDataResume(o, x)

\* C15: no request is retried.  An invocation never sends the same request
\* twice; invocations come into being only by a user action or the mount, one
\* per action (two at the mount, one per endpoint); and an invocation whose
\* request failed either ends or goes on to a different endpoint.  So the
\* requests to an endpoint are at most the actions that target it.
C15_Logs ==
  \A o \in Running :
    LET r == RequestsOf(o.log) IN
      \A i, j \in 1..Len(r) : i # j => r[i] # r[j]

C15_Steps ==
  /\ Count(ops') > Count(ops) =>
       /\ UserAction
       /\ Count(ops') = Count(ops) + (IF Mount THEN 2 ELSE 1)
  /\ \A o \in Running, x \in {"rejected", "unparseable"} :
       Resumes(o, x) =>
         \/ ops' = ops (-) One(o)
         \/ \E n \in BagToSet(ops') :
              /\ ops' = (ops (-) One(o)) (+) One(n)
              /\ RequestsOf(n.log) = RequestsOf(o.log) \o <<Pending(n)>>
              /\ Pending(n) # Pending(o)

C15_NoRequestIsRetried == []C15_Logs /\ [][C15_Steps]_vars

\* a clear-all was rejected and nothing is in flight afterwards
C15_Witness ==
  /\ last = <<Logged("Error clearing signals:")>>
  /\ ops = EmptyBag

\* C16: there is no optimistic update.  The cached list changes only in a
\* step that consumes a parsed response of GET /api/signals, and then holds
\* its payload (the empty list when the payload has no signals field); the
\* snapshot changes only in a step that consumes a parsed response of GET
\* /api/analytics, and then is its payload.  So each cache is its initial value
\* or the payload of a received response.  The clicks that start a submit, a
\* delete or a clear-all, and the steps that consume the answer to the POST or
\* the DELETE, write neither cache.
C16_Steps ==
  /\ signals' # signals =>
       \E o \in Running, h \in BOOLEAN :
         /\ o.pc = "signals" /\ o.net = "replied"
         /\ fetchSignalsResume(o, "ok", h)
         /\ signals' = (IF h THEN o.resp ELSE <<>>)
  /\ analytics' # analytics =>
       \E o \in Running :
         /\ o.pc = "analytics" /\ o.net = "replied"
         /\ fetchAnalyticsResume(o, "ok")
         /\ analytics' = o.resp
  /\ ( \/ extractSignal
       \/ \E b \in BOOLEAN : clearAllSignals(b)
       \/ \E id \in 1..MaxSignalId : deleteSignal(id)
       \/ \E o \in Running, x \in AllOutcomes : extractSignalResume(o, x) \/ deleteResume(o, x) )
       => UNCHANGED <<signals, analytics>>

C16_NoOptimisticUpdate == [][C16_Steps]_vars

\* the DELETE of a row has resolved and the store no longer has the signal;
\* the row is still in the cached list and counted in the snapshot
C16_Witness ==
  /\ \E o \in Running :
       o.kind = "deleteSignal" /\ o.pc = "signals" /\ Count(ops) = 1
  /\ store = {}
  /\ signals = <<1>>
  /\ analytics = Snapshot({1})

\* C17: the last response wins, for each cache on its own.  Whatever else is
\* in flight and in whatever order the requests were issued, a step that
\* consumes a parsed list response leaves its payload in the cached list and
\* the snapshot as it was; a step that consumes a parsed analytics response
\* leaves its payload in the snapshot and the cached list as it was; and a
\* response that failed changes neither.
C17_Steps ==
  \A o \in Running :
    /\ \A h \in BOOLEAN :
         fetchSignalsResume(o, "ok", h) =>
           /\ signals' = (IF h THEN o.resp ELSE <<>>)
           /\ analytics' = analytics
    /\ fetchAnalyticsResume(o, "ok") =>
         /\ analytics' = o.resp
         /\ signals' = signals
    /\ \A x \in {"rejected", "unparseable"} :
         (fetchSignalsResume(o, x, TRUE) \/ fetchAnalyticsResume(o, x)) =>
           UNCHANGED <<signals, analytics>>

C17_LastResponseWins == [][C17_Steps]_vars

\* the list refresh of a submit, issued after the startup list fetch, was
\* consumed first; the startup response, taken before the signal was stored,
\* arrived after it and is what the cache holds
C17_Witness ==
  /\ \E o \in Running :
       /\ o.kind = "extractSignal"
       /\ o.pc = "analytics"
       /\ o.log[4] = Resolved("ok")
  /\ Count(ops) = 1
  /\ store = {1}
  /\ signals = <<>>

\* C18: when the POST of a submit fails in transport (the request is rejected,
\* or its body cannot be read) the submit logs the error, shows exactly one
\* alert, 'Error extracting signal', and ends: the draft, the cached list and
\* the snapshot are as before and no refresh is issued.
C18_Steps ==
  \A o \in Running, x \in {"rejected", "unparseable"} :
    extractSignalResume(o, x) =>
      /\ last' = <<Logged("Error extracting signal:"), Ev("alert", "Error extracting signal")>>
      /\ UNCHANGED <<message, signals, analytics>>
      /\ ops' = ops (-) One(o)

C18_TransportFailureOfSubmit == [][C18_Steps]_vars

C18_Witness ==
  /\ last = <<Logged("Error extracting signal:"), Ev("alert", "Error extracting signal")>>
  /\ message = <<" ", "x">>
  /\ ops = EmptyBag

\* C19 as stated: when a submit that got a success response completes, neither
\* the message text nor the group-name text holds the value that was submitted.
C19_Original_DraftAndGroupNameCleared ==
  [][\A o \in Running, x \in AllOutcomes :
       (o.kind = "extractSignal" /\ fetchAnalyticsResume(o, x)) =>
         /\ trim(message') # o.body.message
         /\ groupName' # o.body.group_name]_vars

\* C19 amended: the step that handles the success response empties the
\* message text and leaves the group-name text as it is; the group name
\* changes only when the user edits it.
C19_Steps ==
  /\ \A o \in Running :
       (o.pc = "post" /\ extractSignalResume(o, "ok") /\ o.resp.success) =>
         /\ message' = <<>>
         /\ groupName' = groupName
  /\ groupName' # groupName => \E g \in GroupNames : setGroupName(g)

C19_SuccessClearsMessageOnly == [][C19_Steps]_vars

\* the success response of a submit sent under the group name VIP has been
\* handled: the message is empty, the group name is still VIP
C19_Witness ==
  /\ \E o \in Running :
       /\ o.kind = "extractSignal"
       /\ o.pc = "signals"
       /\ o.body.group_name = "VIP"
  /\ message = <<>>
  /\ groupName = "VIP"

\* the alerts among the effects of a step
Alerts(l) == SelectSeq(l, LAMBDA e : e.ev = "alert")

\* the errors logged among the effects of a step
Logs(l) == SelectSeq(l, LAMBDA e : e.ev = "log")

\* C20 as stated: when its request is rejected, a write (submit, delete,
\* clear-all) alerts the user and a read (list fetch, analytics fetch, export)
\* is logged without an alert.
C20_Original_AlertsOnlyForWrites ==
  [][\A o \in Running :
       /\ (extractSignalResume(o, "rejected") \/ deleteResume(o, "rejected")) =>
            Alerts(last') # <<>>
       /\ ( \/ fetchSignalsResume(o, "rejected", TRUE)
            \/ fetchAnalyticsResume(o, "rejected")
            \/ exportDataResume(o, "rejected") ) =>
            Logs(last') # <<>> /\ Alerts(last') = <<>>]_vars

\* C20 amended: every rejected request is logged; exactly one alert is shown
\* when the POST of a submit or the GET of an export is rejected, and none
\* when the DELETE of a delete or clear-all, a list fetch or an analytics
\* fetch is rejected.
C20_Steps ==
  \A o \in Running :
    /\ (extractSignalResume(o, "rejected") \/ exportDataResume(o, "rejected")) =>
         Len(Logs(last')) = 1 /\ Len(Alerts(last')) = 1
    /\ ( \/ deleteResume(o, "rejected")
         \/ fetchSignalsResume(o, "rejected", TRUE)
         \/ fetchAnalyticsResume(o, "rejected") ) =>
         Len(Logs(last')) = 1 /\ Alerts(last') = <<>>

C20_AlertsForSubmitAndExport == [][C20_Steps]_vars

\* an export, a read, has just failed and alerted the user
C20_Witness ==
  /\ Alerts(last) = <<Ev("alert", "Error exporting csv")>>
  /\ Logs(last) = <<Logged("Error exporting csv:")>>

\* an extractSignal invocation is suspended at one of its awaits
SubmitRunning == \E o \in Running : o.kind = "extractSignal"

\* the request a suspended extractSignal waits for settles, in any way, and
\* the handler runs on to its next await or to its end
SubmitResumes ==
  \E o \in Running, x \in AllOutcomes :
    /\ o.kind = "extractSignal"
    /\ \/ extractSignalResume(o, x)
       \/ \E h \in BOOLEAN : fetchSignalsResume(o, x, h)
       \/ fetchAnalyticsResume(o, x)

\* the program under the proviso that every request a submit issued eventually
\* settles and the event loop then runs the continuation
LiveSpec == Spec /\ WF_vars(SubmitResumes)

\* C21: extracting is true exactly while a submit is under way, from the step
\* that issues the POST to the step that ends the handler (after a success:
\* the step that consumes the outcome of the analytics refresh); and, every
\* request of the submit settling eventually, extracting always returns to
\* false, whatever the outcomes were.
C21_ExtractingUntilFinished ==
  /\ [](extracting <=> SubmitRunning)
  /\ (extracting ~> ~extracting)

\* a submit whose list refresh failed waits for its analytics refresh with the
\* flag still set
C21_Witness ==
  /\ extracting
  /\ \E o \in Running :
       /\ o.kind = "extractSignal"
       /\ o.pc = "analytics"
       /\ o.log[4] = Resolved("unparseable")

\* C22: the cached list is always a list, never a missing value; a parsed
\* list response without a signals field leaves the empty list in the cache,
\* not the list that was there before.
C22_IsList == signals \in Seq(1..MaxSignalId)

C22_Steps ==
  \A o \in Running :
    fetchSignalsResume(o, "ok", FALSE) =>
      /\ signals' \in Seq(1..MaxSignalId)
      /\ Len(signals') = 0

C22_CachedListIsAlwaysAList == []C22_IsList /\ [][C22_Steps]_vars

\* the list refresh of a delete, clicked on a row of the cached list, got a
\* body without a signals field: the cache is the empty list
C22_Witness ==
  /\ \E o \in Running :
       /\ o.kind = "deleteSignal"
       /\ o.pc = "analytics"
       /\ o.log[4] = Resolved("ok, no signals field")
  /\ Count(ops) = 1
  /\ signals = <<>>

====
